---------------------------- MODULE Spec2Model ----------------------------
(***************************************************************************)
(* Model of the FRED economic monitor (src/src/fred_alerts.py) and of the  *)
(* OpenBB market-data provider (src/src/openbb_market_data.py).            *)
(*                                                                         *)
(* Conventions.                                                            *)
(*   - Python's None is the empty sequence <<>>, a value v that may be     *)
(*     None is <<v>> (an option).                                          *)
(*   - Floats are exact numbers here.  Indicator values and prices are     *)
(*     whole numbers; a percentage is kept as the fraction num/den         *)
(*     (den > 0) and compared by cross-multiplication; a value rounded by  *)
(*     round(x, 2) is an integer number of hundredths.                     *)
(*   - A remote call (obb....) is an input of the action: it raises, or    *)
(*     returns a data frame (a sequence of rows).                          *)
(***************************************************************************)
EXTENDS Integers, Sequences, FiniteSets, TLC

VARIABLES
    client,         \* the entry point the calling component uses in this run
    m_enabled,      \* FREDEconomicMonitor.enabled
    _last_values,   \* FREDEconomicMonitor._last_values: key -> [value, date]
    m_ret,          \* the last check_indicator call: arguments, fetch, result
    flags,          \* OpenBBMarketDataProvider: enabled, fmp_enabled,
                    \*   polygon_enabled, fred_enabled
    _cache,         \* OpenBBMarketDataProvider._cache: key -> CacheEntry
    now,            \* time.time() / datetime.now()
    stored,         \* history: call -> the value a getter last stored for it
    p_ret,          \* the provider call made by the last step, if any
    OPENBB_AVAILABLE,   \* openbb_market_data.OPENBB_AVAILABLE
    f_ret,          \* the last create_market_data_provider call
    tickers,        \* PolygonNewsScraper.tickers
    s_ret           \* the last add_ticker / remove_ticker call

m_vars == <<m_enabled, _last_values, m_ret>>
p_vars == <<flags, _cache, now, stored, p_ret>>
f_vars == <<OPENBB_AVAILABLE, f_ret>>
s_vars == <<tickers, s_ret>>
vars == <<client, m_enabled, _last_values, m_ret, flags, _cache, now, stored, p_ret,
          OPENBB_AVAILABLE, f_ret, tickers, s_ret>>

None == <<>>
Some(v) == <<v>>

Abs(x) == IF x < 0 THEN -x ELSE x

\* ------------------------------------------------------------------ bounds
MaxValue == 1       \* indicator values are -1..MaxValue

\* --------------------------------------------------- program constants
DefaultThresholdPct == 5    \* config.get("threshold_pct", 5.0)

Values == -1..MaxValue
Dates == {1, 2}     \* observation dates: opaque, only copied and compared
Keys == {"treasury_10y", "cpi"}

\* round(x, 2) of the exact fraction n/d (d > 0), as a number of hundredths
\* when n/d is given in hundredths: Python rounds half to even, symmetric
\* in the sign.
RoundHalfEvenNat(n, d) ==
    LET q == n \div d
        r == n % d
    IN  IF 2 * r < d THEN q
        ELSE IF 2 * r > d THEN q + 1
        ELSE IF q % 2 = 0 THEN q ELSE q + 1

RoundTruncate(n, d) == IF n < 0 THEN -(Abs(n) \div d) ELSE n \div d

RoundHalfEven(n, d) ==
    IF n < 0 THEN -RoundHalfEvenNat(-n, d) ELSE RoundHalfEvenNat(n, d)

\* round(pct, 2) of the percentage num/den, in hundredths of a percent
Round2(pct) == RoundHalfEven(pct.num * 100, pct.den)

\* ------------------------------------------------------------ FRED monitor

\* The indicator configurations check_indicator is called with: the key
\* "threshold_pct" may be missing (has_pct = FALSE), None, 0 or a number;
\* "threshold_abs" is None when missing.
IndicatorConfigs ==
    [has_pct : {TRUE}, threshold_pct : {None, Some(0), Some(100)},
     threshold_abs : {None, Some(0), Some(2)}]
    \cup [has_pct : {FALSE}, threshold_pct : {None},
          threshold_abs : {None, Some(0), Some(2)}]

\* What obb.economy.fred_series(...).to_df() does in get_indicator_value:
\* it raises, or gives a frame of rows [value, date] (limit=2).  Only the
\* last row is read: the two-row frames are those with the rows dated 1, 2
\* and a first value of 0.
Observations == [value : Values, date : Dates]
MonitorFrames ==
    {<<>>} \cup {<<o>> : o \in Observations}
    \cup {<<[value |-> 0, date |-> 1], [value |-> v, date |-> 2]>> : v \in Values}
MonitorFetches ==
    {[raises |-> TRUE, df |-> <<>>]}
    \cup {[raises |-> FALSE, df |-> f] : f \in MonitorFrames}

\* get_indicator_value(symbol): (value, date) of the last row, or None.
\* attempts counts the remote calls made.
get_indicator_value(fetch) ==
    IF ~m_enabled THEN [result |-> None, attempts |-> 0]
    ELSE IF fetch.raises THEN [result |-> None, attempts |-> 1]
    ELSE IF Len(fetch.df) = 0 THEN [result |-> None, attempts |-> 1]
    ELSE [result |-> Some(fetch.df[Len(fetch.df)]), attempts |-> 1]

\* change_pct = (current - prev) / prev * 100 if prev != 0 else 0
ChangePct(current, prev) ==
    IF prev # 0
    THEN [num |-> (IF prev < 0 THEN -1 ELSE 1) * (current - prev) * 100,
          den |-> Abs(prev)]
    ELSE [num |-> 0, den |-> 1]

\* abs(pct) >= threshold, for pct = num/den with den > 0
AbsPctGe(pct, threshold) == Abs(pct.num) >= threshold * pct.den
AbsPctGt(pct, threshold) == Abs(pct.num) > threshold * pct.den

\* Python truthiness of an optional number: None and 0 are false
Truthy(opt) == opt # None /\ opt[1] # 0

IsSignificantStrict(threshold_pct, threshold_abs, change_pct, change_abs) ==
    \/ Truthy(threshold_pct) /\ AbsPctGt(change_pct, threshold_pct[1])
    \/ Truthy(threshold_abs) /\ Abs(change_abs) > threshold_abs[1]

IsSignificant(threshold_pct, threshold_abs, change_pct, change_abs) ==
    \/ Truthy(threshold_pct) /\ AbsPctGe(change_pct, threshold_pct[1])
    \/ Truthy(threshold_abs) /\ Abs(change_abs) >= threshold_abs[1]

SeverityZeroIsSet(threshold_pct, change_pct) ==
    IF threshold_pct # None /\ AbsPctGe(change_pct, threshold_pct[1] * 2)
    THEN "high"
    ELSE IF threshold_pct # None /\ AbsPctGe(change_pct, threshold_pct[1])
    THEN "medium"
    ELSE "low"

Severity(threshold_pct, change_pct) ==
    IF Truthy(threshold_pct) /\ AbsPctGe(change_pct, threshold_pct[1] * 2)
    THEN "high"
    ELSE IF Truthy(threshold_pct) /\ AbsPctGe(change_pct, threshold_pct[1])
    THEN "medium"
    ELSE "low"

\* The EconomicAlert built by check_indicator (name and message are texts
\* formatted from the same fields and are left out).
EconomicAlert(key, current, prev, threshold_pct) ==
    LET change_abs == current.value - prev.value
        change_pct == ChangePct(current.value, prev.value)
    IN  [indicator |-> key,
         current_value |-> current.value,
         previous_value |-> prev.value,
         change_pct |-> Round2(change_pct),
         change_abs |-> change_abs,
         severity |-> Severity(threshold_pct, change_pct),
         timestamp |-> current.date]

\* The value check_indicator returns once the fetch has given `current`.
CheckResult(key, config, current) ==
    LET threshold_pct == IF config.has_pct THEN config.threshold_pct
                         ELSE Some(DefaultThresholdPct)
        threshold_abs == config.threshold_abs
    IN  IF key \in DOMAIN _last_values
        THEN LET prev == _last_values[key]
                 change_abs == current.value - prev.value
                 change_pct == ChangePct(current.value, prev.value)
             IN  IF IsSignificant(threshold_pct, threshold_abs, change_pct, change_abs)
                 THEN Some(EconomicAlert(key, current, prev, threshold_pct))
                 ELSE None
        ELSE None

\* Whether check_indicator reaches "Update stored value": an alert is
\* returned before it.
StoresValue(alert) == alert = None

\* check_indicator(key, config)
check_indicator(key, config, fetch) ==
    LET got == get_indicator_value(fetch)
        threshold_pct == IF config.has_pct THEN config.threshold_pct
                         ELSE Some(DefaultThresholdPct)
    IN  IF got.result = None
        THEN /\ m_ret' = [key |-> key, threshold_pct |-> threshold_pct,
                          threshold_abs |-> config.threshold_abs,
                          raised |-> fetch.raises /\ m_enabled,
                          attempts |-> got.attempts,
                          current |-> None, alert |-> None]
             /\ UNCHANGED _last_values
        ELSE LET current == got.result[1]
                 alert == CheckResult(key, config, current)
             IN  /\ m_ret' = [key |-> key, threshold_pct |-> threshold_pct,
                              threshold_abs |-> config.threshold_abs,
                              raised |-> FALSE,
                              attempts |-> got.attempts,
                              current |-> Some(current), alert |-> alert]
                 /\ _last_values' =
                        IF StoresValue(alert)
                        THEN (key :> current) @@ _last_values
                        ELSE _last_values

CheckIndicator ==
    /\ client = "check_indicator"
    /\ \E key \in Keys, config \in IndicatorConfigs, fetch \in MonitorFetches :
        check_indicator(key, config, fetch)
    /\ UNCHANGED <<client, m_enabled, p_vars, f_vars, s_vars>>

NoCall ==
    [key |-> "", threshold_pct |-> None, threshold_abs |-> None,
     raised |-> FALSE, attempts |-> 0, current |-> None, alert |-> None]

\* ------------------------------------------------- market-data provider

\* bounds of the provider's clock and the scale of its durations
MaxTime == 2            \* the clock runs over 0..MaxTime
CacheTtlSeconds == 2    \* cache_ttl_seconds = cache_ttl_minutes * 60
DayLength == 2          \* clock ticks in a calendar day

Today(t) == t \div DayLength
Days == 0..Today(MaxTime)
Tickers == {"AAPL"}
ProviderClients ==
    {"get_price", "get_price_change", "get_intraday_change", "is_significant_move",
     "get_historical_prices", "get_company_profile", "get_financial_summary",
     "get_news", "get_economic_indicator"}
Symbols == {"DGS10"}

\* The configurations the provider is constructed with (enabled stands for
\* config.get("enabled", True) and OPENBB_AVAILABLE).
ProviderConfigs ==
    {[enabled |-> e, fmp_enabled |-> f, polygon_enabled |-> p, fred_enabled |-> r] :
        <<e, f, p, r>> \in {<<TRUE, TRUE, TRUE, TRUE>>, <<FALSE, TRUE, TRUE, TRUE>>,
                            <<TRUE, FALSE, TRUE, TRUE>>, <<TRUE, TRUE, FALSE, TRUE>>,
                            <<TRUE, TRUE, TRUE, FALSE>>}}
AllEnabled ==
    [enabled |-> TRUE, fmp_enabled |-> TRUE, polygon_enabled |-> TRUE,
     fred_enabled |-> TRUE]

\* A cache key f"{prefix}:{x}:{a}:{b}": the prefix, the ticker or symbol and
\* up to two further parts, each an option.
CacheKey(prefix, x, a, b) == <<prefix, x, a, b>>

FreshInclusive(entry, t) == t - entry.created_at <= CacheTtlSeconds

\* time.time() - entry.created_at < self.cache_ttl_seconds
Fresh(entry, t) == t - entry.created_at < CacheTtlSeconds

Remove(cache, key) == [k \in DOMAIN cache \ {key} |-> cache[k]]

\* _get_cached(key): the data returned and the cache it leaves
get_cached(key) ==
    IF key \in DOMAIN _cache
    THEN IF Fresh(_cache[key], now)
         THEN [data |-> Some(_cache[key].data), cache |-> _cache]
         ELSE [data |-> None, cache |-> Remove(_cache, key)]
    ELSE [data |-> None, cache |-> _cache]

SetCachedNothing(cache, key, data, t) == cache

\* _set_cached(key, data) at time t, on the cache left by the lookup
set_cached(cache, key, data, t) ==
    (key :> [data |-> data, created_at |-> t]) @@ cache

\* _clean_cache(): the cache without its expired entries
clean_cache ==
    [k \in {x \in DOMAIN _cache : Fresh(_cache[x], now)} |-> _cache[k]]

OnExceptionRetry(cache, t) ==
    [value |-> None, api_calls |-> 2, raised |-> TRUE, wrote |-> FALSE,
     cache |-> cache, now |-> t]

\* except Exception: logger.warning(...); return None -- after the one
\* remote call that raised, at time t, with the cache the lookup left
OnException(cache, t) ==
    [value |-> None, api_calls |-> 1, raised |-> TRUE, wrote |-> FALSE,
     cache |-> cache, now |-> t]

\* The body every getter shares: the feature-flag guard, the cache lookup,
\* the remote call inside try/except, and the store of a usable result.
\* `value` is what the getter makes of the frame (None when unusable), dt
\* the time the remote call takes.
CachedFetch(flag, key, raises, value, dt) ==
    IF ~(flags.enabled /\ flag)
    THEN [value |-> None, api_calls |-> 0, raised |-> FALSE, wrote |-> FALSE,
          cache |-> _cache, now |-> now]
    ELSE LET cached == get_cached(key)
         IN  IF cached.data # None
             THEN [value |-> cached.data, api_calls |-> 0, raised |-> FALSE,
                   wrote |-> FALSE, cache |-> cached.cache, now |-> now]
             ELSE IF raises
             THEN OnException(cached.cache, now + dt)
             ELSE IF value = None
             THEN [value |-> None, api_calls |-> 1, raised |-> FALSE,
                   wrote |-> FALSE, cache |-> cached.cache, now |-> now + dt]
             ELSE [value |-> value, api_calls |-> 1, raised |-> FALSE,
                   wrote |-> TRUE,
                   cache |-> set_cached(cached.cache, key, value[1], now + dt),
                   now |-> now + dt]

Idle ==
    [op |-> "idle", call |-> <<>>, key |-> <<>>, value |-> None, api_calls |-> 0,
     raised |-> FALSE, remote |-> <<>>, threshold |-> None, result |-> None]

\* The step a call makes: `call` is the getter reached, with its arguments,
\* r the outcome of its CachedFetch; op, threshold and result describe the
\* operation called when it is not the getter itself.
Step(op, call, key, remote, r, threshold, result) ==
    /\ _cache' = r.cache
    /\ now' = r.now
    /\ stored' = IF r.wrote
                 THEN (call :> [data |-> r.value[1], at |-> r.now,
                                day |-> Today(now)]) @@ stored
                 ELSE stored
    /\ p_ret' = [op |-> op, call |-> call, key |-> key, value |-> r.value,
                 api_calls |-> r.api_calls, raised |-> r.raised,
                 remote |-> remote, threshold |-> threshold, result |-> result]
    /\ UNCHANGED <<client, flags, m_vars, f_vars, s_vars>>

Return(op, call, key, remote, r) == Step(op, call, key, remote, r, None, None)

Durations == {dt \in {0, 1} : now + dt <= MaxTime}
Raises == [raises : {TRUE}, df : {<<>>}]
Frames(dfs) == Raises \cup [raises : {FALSE}, df : dfs]

\* The market: the closing price of a day.  A quote gives the price of the
\* day it is asked on.
ClosingPrice(day) == 10 + day

\* obb.equity.price.quote(ticker).to_df(): no row, or one row in which the
\* columns last_price and change_percent may be missing.  change_percent is
\* in thousandths of a percent.
ChangePercents == {-2500, 1996, 2000}
QuoteFrames(t) ==
    {<<>>}
    \cup {<<[last_price |-> lp, change_percent |-> cp]>> :
            lp \in {None, Some(ClosingPrice(Today(t)))},
            cp \in {None} \cup {Some(c) : c \in ChangePercents}}

\* get_price: not df.empty and 'last_price' in df.columns
PriceOf(df) ==
    IF Len(df) > 0 /\ df[1].last_price # None
    THEN Some(df[1].last_price[1])
    ELSE None

\* f"openbb_price:{ticker}:{date.isoformat() if date else 'latest'}"
PriceKey(ticker, date) == CacheKey("openbb_price", ticker, date, None)

get_price(ticker, date, fetch, dt) ==
    Return("get_price", <<"get_price", ticker, date, None>>, PriceKey(ticker, date),
           fetch,
           CachedFetch(flags.fmp_enabled, PriceKey(ticker, date), fetch.raises,
                       PriceOf(fetch.df), dt))

GetPrice ==
    /\ client = "get_price"
    /\ \E ticker \in Tickers, date \in {None} \cup {Some(d) : d \in Days},
          fetch \in Frames({<<>>} \cup {f \in QuoteFrames(now) :
                                          Len(f) > 0 /\ f[1].change_percent = None}),
          dt \in Durations :
        get_price(ticker, date, fetch, dt)

\* obb.equity.price.historical(...).to_df(): the closes of the range
HistoricalFrames == {<<>>, <<3>>, <<0, 3>>, <<3, 1>>, <<3, 3>>, <<1, 0, 3>>}

PriceChangeTruncated(df) ==
    IF Len(df) >= 2 /\ df[1] > 0
    THEN Some(RoundTruncate((df[Len(df)] - df[1]) * 10000, df[1]))
    ELSE None

\* get_price_change: round(((end_price - start_price) / start_price) * 100, 2)
\* when len(df) >= 2 and start_price > 0
PriceChangeOf(df) ==
    IF Len(df) >= 2 /\ df[1] > 0
    THEN Some(Round2([num |-> (df[Len(df)] - df[1]) * 100, den |-> df[1]]))
    ELSE None

\* end = end or datetime.now();
\* f"openbb_change:{ticker}:{start.date()}:{end.date()}"
ChangeKey(ticker, start, end) ==
    CacheKey("openbb_change", ticker, Some(start),
             IF end = None THEN Some(Today(now)) ELSE end)

get_price_change(ticker, start, end, fetch, dt) ==
    CachedFetch(flags.fmp_enabled, ChangeKey(ticker, start, end), fetch.raises,
                PriceChangeOf(fetch.df), dt)

GetPriceChange ==
    /\ client = "get_price_change"
    /\ \E ticker \in Tickers, start \in {0}, end \in {None} \cup {Some(d) : d \in Days},
          fetch \in Frames(HistoricalFrames), dt \in Durations :
        Return("get_price_change", <<"get_price_change", ticker, Some(start), end>>,
               ChangeKey(ticker, start, end), fetch,
               get_price_change(ticker, start, end, fetch, dt))

\* get_intraday_change: round(float(df['change_percent'].iloc[0]), 2), in
\* hundredths of a percent
IntradayOf(df) ==
    IF Len(df) > 0 /\ df[1].change_percent # None
    THEN Some(RoundHalfEven(df[1].change_percent[1], 10))
    ELSE None

\* f"openbb_intraday:{ticker}:{datetime.now().date()}"
IntradayKey(ticker) == CacheKey("openbb_intraday", ticker, Some(Today(now)), None)

get_intraday_change(ticker, fetch, dt) ==
    CachedFetch(flags.fmp_enabled, IntradayKey(ticker), fetch.raises,
                IntradayOf(fetch.df), dt)

IntradayFrames(t) ==
    Frames({<<>>} \cup {f \in QuoteFrames(t) : Len(f) > 0 /\ f[1].last_price # None})

GetIntradayChange ==
    /\ client = "get_intraday_change"
    /\ \E ticker \in Tickers, fetch \in IntradayFrames(now), dt \in Durations :
        Return("get_intraday_change", <<"get_intraday_change", ticker, None, None>>,
               IntradayKey(ticker), fetch, get_intraday_change(ticker, fetch, dt))

\* is_significant_move(ticker, threshold_pct, days): the change it reads and
\* the answer it gives; the change is in hundredths of a percent.
Significant(change, threshold_pct) ==
    IF change # None THEN Some(Abs(change[1]) >= threshold_pct * 100) ELSE None

NotCalled ==
    [value |-> None, api_calls |-> 0, raised |-> FALSE, wrote |-> FALSE,
     cache |-> _cache, now |-> now]

is_significant_move(ticker, threshold_pct, days, fetch, dt) ==
    LET start == Today(now) - days      \* (datetime.now() - timedelta(days)).date()
        call == IF days <= 1
                THEN <<"get_intraday_change", ticker, None, None>>
                ELSE <<"get_price_change", ticker, Some(start), None>>
        key == IF days <= 1 THEN IntradayKey(ticker)
               ELSE ChangeKey(ticker, start, None)
        r == IF ~flags.enabled THEN NotCalled
             ELSE IF days <= 1 THEN get_intraday_change(ticker, fetch, dt)
             ELSE get_price_change(ticker, start, None, fetch, dt)
    IN  Step("is_significant_move", call, key, <<>>, r,
             Some([threshold_pct |-> threshold_pct, days |-> days]),
             Significant(r.value, threshold_pct))

IsSignificantMove ==
    /\ client = "is_significant_move"
    /\ \E ticker \in Tickers, threshold_pct \in {2, 3}, dt \in Durations :
          \/ \E fetch \in IntradayFrames(now) :
                is_significant_move(ticker, threshold_pct, 1, fetch, dt)
          \/ \E fetch \in Frames(HistoricalFrames) :
                is_significant_move(ticker, threshold_pct, 2, fetch, dt)

\* The getters that reshape the rows of a frame into a dict or a list and
\* cache it when the frame is not empty: get_historical_prices,
\* get_company_profile, get_financial_summary, get_news.  A row is what the
\* remote side sent, identified by a number.
RecordFrames == {<<>>, <<1>>, <<2>>, <<1, 2>>}
RecordsOf(df) == IF Len(df) > 0 THEN Some(df) ELSE None

\* f"openbb_history:{ticker}:{days}"
get_historical_prices(ticker, days, fetch, dt) ==
    Return("get_historical_prices", <<"get_historical_prices", ticker, Some(days), None>>,
           CacheKey("openbb_history", ticker, Some(days), None), fetch,
           CachedFetch(flags.fmp_enabled,
                       CacheKey("openbb_history", ticker, Some(days), None),
                       fetch.raises, RecordsOf(fetch.df), dt))

GetHistoricalPrices ==
    /\ client = "get_historical_prices"
    /\ \E ticker \in Tickers, days \in {7, 30}, fetch \in Frames(RecordFrames),
          dt \in Durations :
        get_historical_prices(ticker, days, fetch, dt)

\* f"openbb_profile:{ticker}"
get_company_profile(ticker, fetch, dt) ==
    Return("get_company_profile", <<"get_company_profile", ticker, None, None>>,
           CacheKey("openbb_profile", ticker, None, None), fetch,
           CachedFetch(flags.fmp_enabled, CacheKey("openbb_profile", ticker, None, None),
                       fetch.raises, RecordsOf(fetch.df), dt))

GetCompanyProfile ==
    /\ client = "get_company_profile"
    /\ \E ticker \in Tickers, fetch \in Frames(RecordFrames), dt \in Durations :
        get_company_profile(ticker, fetch, dt)

\* f"openbb_financials:{ticker}"
get_financial_summary(ticker, fetch, dt) ==
    Return("get_financial_summary", <<"get_financial_summary", ticker, None, None>>,
           CacheKey("openbb_financials", ticker, None, None), fetch,
           CachedFetch(flags.fmp_enabled,
                       CacheKey("openbb_financials", ticker, None, None),
                       fetch.raises, RecordsOf(fetch.df), dt))

GetFinancialSummary ==
    /\ client = "get_financial_summary"
    /\ \E ticker \in Tickers, fetch \in Frames(RecordFrames), dt \in Durations :
        get_financial_summary(ticker, fetch, dt)

\* f"openbb_news:{ticker}:{limit}", behind polygon_enabled
get_news(ticker, limit, fetch, dt) ==
    Return("get_news", <<"get_news", ticker, Some(limit), None>>,
           CacheKey("openbb_news", ticker, Some(limit), None), fetch,
           CachedFetch(flags.polygon_enabled,
                       CacheKey("openbb_news", ticker, Some(limit), None),
                       fetch.raises, RecordsOf(fetch.df), dt))

GetNews ==
    /\ client = "get_news"
    /\ \E ticker \in Tickers, limit \in {1, 5}, fetch \in Frames(RecordFrames),
          dt \in Durations :
        get_news(ticker, limit, fetch, dt)

\* obb.economy.fred_series(symbol=symbol, limit=2).to_df(): up to two
\* observations, the older one first
FredValues == {0, 1, 3}
FredFrames ==
    {<<>>} \cup {<<[value |-> v, date |-> 2]>> : v \in FredValues}
    \cup {<<[value |-> u, date |-> 1], [value |-> v, date |-> 2]>> :
            u \in FredValues, v \in FredValues}

\* change_pct of the EconomicIndicator: None without a previous non-zero
\* observation, and `round(change_pct, 2) if change_pct else None` otherwise
IndicatorChange(df) ==
    IF Len(df) >= 2 /\ df[Len(df) - 1].value # 0
    THEN LET change_pct == ChangePct(df[Len(df)].value, df[Len(df) - 1].value)
         IN  IF change_pct.num # 0 THEN Some(Round2(change_pct)) ELSE None
    ELSE None

\* The EconomicIndicator get_economic_indicator builds (name, a text, is
\* left out)
IndicatorOf(symbol, df) ==
    IF Len(df) >= 1
    THEN Some([symbol |-> symbol, value |-> df[Len(df)].value,
               date |-> df[Len(df)].date, change_pct |-> IndicatorChange(df)])
    ELSE None

\* f"openbb_fred:{symbol}", behind fred_enabled
get_economic_indicator(symbol, fetch, dt) ==
    Return("get_economic_indicator", <<"get_economic_indicator", symbol, None, None>>,
           CacheKey("openbb_fred", symbol, None, None), fetch,
           CachedFetch(flags.fred_enabled, CacheKey("openbb_fred", symbol, None, None),
                       fetch.raises, IndicatorOf(symbol, fetch.df), dt))

GetEconomicIndicator ==
    /\ client = "get_economic_indicator"
    /\ \E symbol \in Symbols, fetch \in Frames(FredFrames), dt \in Durations :
        get_economic_indicator(symbol, fetch, dt)

\* A direct _get_cached(key), on a key of the cache or on one it lacks;
\* p_ret.result tells whether the key had an entry before the lookup.
GetCached ==
    /\ client \in ProviderClients
    /\ \E key \in DOMAIN _cache \cup {PriceKey("AAPL", None)} :
        /\ _cache' = get_cached(key).cache
        /\ p_ret' = [Idle EXCEPT !.op = "_get_cached", !.key = key,
                                 !.value = get_cached(key).data,
                                 !.result = Some(key \in DOMAIN _cache)]
    /\ UNCHANGED <<client, flags, now, stored, m_vars, f_vars, s_vars>>

\* _clean_cache()
CleanCache ==
    /\ client \in ProviderClients
    /\ _cache' = clean_cache
    /\ p_ret' = [Idle EXCEPT !.op = "_clean_cache"]
    /\ UNCHANGED <<client, flags, now, stored, m_vars, f_vars, s_vars>>

\* Time passes between calls.
Tick ==
    /\ client \in ProviderClients
    /\ now < MaxTime
    /\ now' = now + 1
    /\ p_ret' = Idle
    /\ UNCHANGED <<client, flags, _cache, stored, m_vars, f_vars, s_vars>>

\* ------------------------------------------------------ provider factory

\* A text is the sequence of its characters.
Openbb == <<"o", "p", "e", "n", "b", "b">>
Yfinance == <<"y", "f", "i", "n", "a", "n", "c", "e">>

\* The values of the environment variable MARKET_DATA_PROVIDER: unset
\* (None) or a text.
EnvValues ==
    {None, Some(Openbb), Some(Yfinance),
     Some(<<"O", "p", "e", "n", "B", "B">>),
     Some(<<"O", "P", "E", "N", "B", "B">>),
     Some(<<"o", "p", "e", "n">>),
     Some(<<"o", "p", "e", "n", "b", "b", " ">>),
     Some(<<>>)}

\* str.lower() of a character
LowerChar(c) ==
    CASE c = "O" -> "o" [] c = "P" -> "p" [] c = "E" -> "e" [] c = "N" -> "n"
      [] c = "B" -> "b" [] c = "A" -> "a" [] OTHER -> c

LowerNothing(s) == s

\* str.lower()
Lower(s) == [i \in 1..Len(s) |-> LowerChar(s[i])]

\* create_market_data_provider(config): the class of the provider returned
create_market_data_provider(env) ==
    LET provider_type == Lower(IF env = None THEN Yfinance ELSE env[1])
    IN  IF provider_type = Openbb /\ OPENBB_AVAILABLE
        THEN "OpenBBMarketDataProvider"
        ELSE "MarketDataProvider"

CreateMarketDataProvider ==
    /\ client = "create_market_data_provider"
    /\ \E env \in EnvValues :
          f_ret' = [called |-> TRUE, env |-> env,
                    returned |-> create_market_data_provider(env)]
    /\ UNCHANGED <<client, OPENBB_AVAILABLE, m_vars, p_vars, s_vars>>

NoFactoryCall == [called |-> FALSE, env |-> None, returned |-> ""]

\* ---------------------------------------------------- PolygonNewsScraper

MaxList == 2

\* Ticker texts a caller can pass
TickerTexts == {<<"A">>, <<"a">>, <<"B">>}

\* The lists a caller can pass to the constructor: any list of texts
TickerLists ==
    UNION {[1..n -> TickerTexts] : n \in 0..MaxList}

\* str.upper() of a character
UpperChar(c) ==
    CASE c = "a" -> "A" [] c = "b" -> "B" [] OTHER -> c

\* str.upper()
Upper(s) == [i \in 1..Len(s) |-> UpperChar(s[i])]

\* x in list
In(x, list) == \E i \in 1..Len(list) : list[i] = x

\* list.remove(x): deletes the first occurrence of x
ListRemove(list, x) ==
    LET i == CHOOSE k \in 1..Len(list) :
                 list[k] = x /\ \A j \in 1..(k - 1) : list[j] # x
    IN  SubSeq(list, 1, i - 1) \o SubSeq(list, i + 1, Len(list))

\* PolygonNewsScraper.__init__: self.tickers = tickers or []
ScraperInit(list) == IF Len(list) = 0 THEN <<>> ELSE list

\* PolygonNewsScraper.add_ticker
add_ticker(list, t) ==
    LET ticker == Upper(t)
    IN  IF ~In(ticker, list) THEN Append(list, ticker) ELSE list

\* PolygonNewsScraper.remove_ticker
remove_ticker(list, t) ==
    LET ticker == Upper(t)
    IN  IF In(ticker, list) THEN ListRemove(list, ticker) ELSE list

AddTicker ==
    /\ client = "watchlist"
    /\ Len(tickers) < MaxList
    /\ \E t \in TickerTexts :
          /\ tickers' = add_ticker(tickers, t)
          /\ s_ret' = [op |-> "add_ticker", ticker |-> t]
    /\ UNCHANGED <<client, m_vars, p_vars, f_vars>>

RemoveTicker ==
    /\ client = "watchlist"
    /\ \E t \in TickerTexts :
          /\ tickers' = remove_ticker(tickers, t)
          /\ s_ret' = [op |-> "remove_ticker", ticker |-> t]
    /\ UNCHANGED <<client, m_vars, p_vars, f_vars>>

NoWatchlistCall == [op |-> "", ticker |-> <<>>]

\* ------------------------------------------------------- the whole model

\* The entry points share no state but the provider's cache, whose keys
\* carry the getter's prefix: a run exercises one entry point.
Clients ==
    {"check_indicator", "get_price", "get_price_change", "get_intraday_change",
     "is_significant_move", "get_historical_prices", "get_company_profile",
     "get_financial_summary", "get_news", "get_economic_indicator",
     "create_market_data_provider", "watchlist"}

\* FREDEconomicMonitor.__init__ and OpenBBMarketDataProvider.__init__:
\* nothing known, nothing cached.
Init ==
    /\ client \in Clients
    /\ IF client = "check_indicator"
       THEN m_enabled \in BOOLEAN /\ flags = AllEnabled
       ELSE IF client \in ProviderClients
       THEN m_enabled = TRUE /\ flags \in ProviderConfigs
       ELSE m_enabled = TRUE /\ flags = AllEnabled
    /\ _last_values = <<>>
    /\ m_ret = NoCall
    /\ _cache = <<>>
    /\ now = 0
    /\ stored = <<>>
    /\ p_ret = Idle
    /\ IF client = "create_market_data_provider"
       THEN OPENBB_AVAILABLE \in BOOLEAN
       ELSE OPENBB_AVAILABLE = TRUE
    /\ f_ret = NoFactoryCall
    /\ IF client = "watchlist"
       THEN \E list \in TickerLists : tickers = ScraperInit(list)
       ELSE tickers = <<>>
    /\ s_ret = NoWatchlistCall

Next ==
    \/ CreateMarketDataProvider
    \/ AddTicker
    \/ RemoveTicker
    \/ CheckIndicator
    \/ GetPrice
    \/ GetPriceChange
    \/ GetIntradayChange
    \/ IsSignificantMove
    \/ GetHistoricalPrices
    \/ GetCompanyProfile
    \/ GetFinancialSummary
    \/ GetNews
    \/ GetEconomicIndicator
    \/ GetCached
    \/ CleanCache
    \/ Tick

Spec == Init /\ [][Next]_vars

\* ------------------------------------------------------------- claims

Getters ==
    {"get_price", "get_price_change", "get_intraday_change",
     "get_historical_prices", "get_company_profile", "get_financial_summary",
     "get_news", "get_economic_indicator"}

\* |change_pct| >= x for the change from prev to cur, change_pct being
\* (cur - prev) / prev * 100, and 0 when prev is 0
AbsChangePctAtLeast(prev, cur, x) ==
    IF prev = 0 THEN 0 >= x ELSE Abs(cur - prev) * 100 >= x * Abs(prev)

C1_Expected(prev, cur, tp, ta) ==
    \/ tp # None /\ tp[1] # 0 /\ AbsChangePctAtLeast(prev, cur, tp[1])
    \/ ta # None /\ ta[1] # 0 /\ Abs(cur - prev) >= ta[1]

C1_Call ==
    LET r == m_ret'
    IN  r.key # "" =>
            IF r.current # None /\ r.key \in DOMAIN _last_values
            THEN (r.alert # None) <=>
                     C1_Expected(_last_values[r.key].value, r.current[1].value,
                                 r.threshold_pct, r.threshold_abs)
            ELSE r.alert = None

\* C1: a check_indicator call that finds a previous value and whose fetch
\* succeeds returns an alert exactly when the (non-zero) percentage
\* threshold or the (non-zero) absolute threshold is reached by the change
\* from the previous to the fetched value; every other call returns None.
C1_AlertIffSignificant == [][C1_Call]_vars

C1_Witness ==
    /\ m_ret.alert # None
    /\ m_ret.threshold_pct = Some(100)
    /\ m_ret.threshold_abs = Some(2)
    /\ m_ret.alert[1].previous_value = 1
    /\ m_ret.alert[1].current_value = -1

\* C2: after a check_indicator call whose fetch succeeded, _last_values[key]
\* is the value and date just fetched, alert or no alert.
C2_StoresEveryFetch ==
    m_ret.current # None =>
        /\ m_ret.key \in DOMAIN _last_values
        /\ _last_values[m_ret.key] = m_ret.current[1]

C3_Severity(pctSet, unsetOrBelow) ==
    m_ret.alert # None =>
        LET a == m_ret.alert[1]
            tp == m_ret.threshold_pct
            AtLeast(x) == AbsChangePctAtLeast(a.previous_value, a.current_value, x)
        IN  /\ a.severity \in {"high", "medium", "low"}
            /\ (a.severity = "high") <=> (pctSet /\ AtLeast(2 * tp[1]))
            /\ (a.severity = "medium") <=>
                   (pctSet /\ AtLeast(tp[1]) /\ ~AtLeast(2 * tp[1]))
            /\ (a.severity = "low") <=> (unsetOrBelow \/ ~AtLeast(tp[1]))

\* C3 as stated: the severity of an alert is "high" exactly when
\* threshold_pct is set (not None) and |change_pct| >= 2 * threshold_pct,
\* "medium" exactly when it is set and threshold_pct <= |change_pct| <
\* 2 * threshold_pct, "low" exactly when it is unset or |change_pct| is
\* below it.
C3_SeverityWhenSet ==
    C3_Severity(m_ret.threshold_pct # None, m_ret.threshold_pct = None)

\* C3 as amended: the same with "set" read as "set and non-zero" and
\* "unset" as "unset or zero": a threshold_pct of 0 is treated as unset.
C3_SeverityWhenNonZero ==
    C3_Severity(m_ret.threshold_pct # None /\ m_ret.threshold_pct[1] # 0,
                m_ret.threshold_pct = None \/ m_ret.threshold_pct[1] = 0)

C3_Witness ==
    /\ m_ret.alert # None
    /\ m_ret.threshold_pct = Some(0)
    /\ m_ret.alert[1].severity = "low"

C4_Lookup ==
    p_ret'.op = "_get_cached" =>
        LET k == p_ret'.key
            live == k \in DOMAIN _cache
                    /\ now - _cache[k].created_at < CacheTtlSeconds
        IN  /\ live => p_ret'.value = <<_cache[k].data>>
            /\ ~live => p_ret'.value = None
            /\ (k \in DOMAIN _cache /\ ~live) => k \notin DOMAIN _cache'

\* C4: _get_cached(key) returns the stored data exactly when the key has an
\* entry younger than cache_ttl_seconds; otherwise it returns None, and an
\* entry of age >= cache_ttl_seconds is removed by the lookup.
C4_GetCached == [][C4_Lookup]_vars

C4_Witness ==
    /\ p_ret.op = "_get_cached"
    /\ p_ret.result = Some(TRUE)
    /\ p_ret.value = None
    /\ p_ret.key \notin DOMAIN _cache

\* The calls whose cache key holds the date of the call
DayKeyed(call) ==
    \/ call[1] = "get_intraday_change"
    \/ call[1] = "get_price_change" /\ call[4] = None

C5_Hit(sameDayWhenDayKeyed) ==
    LET call == p_ret'.call
    IN  (/\ p_ret'.op \in Getters
         /\ call \in DOMAIN stored
         /\ now - stored[call].at < CacheTtlSeconds
         /\ sameDayWhenDayKeyed =>
                (DayKeyed(call) => Today(now) = stored[call].day))
        => /\ p_ret'.value = <<stored[call].data>>
           /\ p_ret'.api_calls = 0

\* C5 as stated: a getter call made less than cache_ttl_seconds after the
\* same getter stored v for the same arguments returns v and makes no
\* remote call.
C5_CachedWithinTtl == [][C5_Hit(FALSE)]_vars

\* C5 as amended: the same, provided that for get_intraday_change and for
\* get_price_change with end=None the later call is made on the calendar
\* day of the call that stored v.
C5_CachedWithinTtlSameDay == [][C5_Hit(TRUE)]_vars

C5_Witness ==
    /\ p_ret.op = "get_intraday_change"
    /\ p_ret.api_calls = 0
    /\ p_ret.value # None
    /\ p_ret.call \in DOMAIN stored
    /\ now > stored[p_ret.call].at

C6_Failure ==
    /\ p_ret'.raised =>
          /\ p_ret'.api_calls = 1
          /\ p_ret'.value = None
          /\ p_ret'.result = None
          /\ DOMAIN _cache' \subseteq DOMAIN _cache
          /\ \A k \in DOMAIN _cache' : _cache'[k] = _cache[k]
    /\ m_ret'.raised =>
          /\ m_ret'.attempts = 1
          /\ m_ret'.current = None
          /\ m_ret'.alert = None

\* C6: when the remote call raises, the operation has made exactly that one
\* remote attempt, returns None and adds no cache entry.
C6_NoRetryNoPropagation == [][C6_Failure]_vars

C6_Witness ==
    /\ p_ret.op = "get_news"
    /\ p_ret.raised
    /\ _cache # <<>>

\* C7: get_price(ticker, date) with a date returns the closing price of
\* that date (here for a date before the day of the call).
C7_PriceOfTheDate ==
    (/\ p_ret.op = "get_price"
     /\ p_ret.value # None
     /\ p_ret.call[3] # None
     /\ p_ret.call[3][1] < Today(now))
    => p_ret.value[1] = ClosingPrice(p_ret.call[3][1])

\* C8: is_significant_move returns True if the absolute move exceeds
\* threshold_pct, False if it does not, None if the provider is disabled
\* or the change is unavailable.
C8_TrueIffExceeds ==
    p_ret.op = "is_significant_move" =>
        IF ~flags.enabled \/ p_ret.value = None
        THEN p_ret.result = None
        ELSE p_ret.result =
                 <<Abs(p_ret.value[1]) > p_ret.threshold[1].threshold_pct * 100>>

\* C9: the indicator get_economic_indicator builds has change_pct = None
\* only when the series has a single observation or the previous one is 0.
C9_ChangeWheneverPrevious ==
    (/\ p_ret.op = "get_economic_indicator"
     /\ p_ret.api_calls = 1
     /\ p_ret.value # None)
    => LET df == p_ret.remote.df
       IN  (p_ret.value[1].change_pct = None)
               <=> (Len(df) < 2 \/ df[Len(df) - 1].value = 0)

C10_Result(exact) ==
    (/\ p_ret.op = "get_price_change"
     /\ p_ret.api_calls = 1
     /\ ~p_ret.raised)
    => LET df == p_ret.remote.df
       IN  IF Len(df) >= 2 /\ df[1] > 0
           THEN /\ p_ret.value # None
                /\ LET v == p_ret.value[1]
                       n == (df[Len(df)] - df[1]) * 10000
                   IN  IF exact THEN v * df[1] = n
                       ELSE 2 * Abs(v * df[1] - n) <= df[1]
           ELSE /\ p_ret.value = None
                /\ p_ret.key \notin DOMAIN _cache

\* C10 as stated: the value returned, v hundredths of a percent, is
\* (last_close - first_close) / first_close * 100 itself.
C10_ExactChange == C10_Result(TRUE)

\* C10 as amended: the value returned is that quotient rounded to two
\* decimal places, that is, within half a hundredth of it.
C10_RoundedChange == C10_Result(FALSE)

C10_Witness ==
    /\ p_ret.op = "get_price_change"
    /\ p_ret.api_calls = 1
    /\ p_ret.value = Some(-6667)

\* Two characters that differ at most in case
SameLetter(a, b) ==
    \/ a = b
    \/ \E pair \in {<<"O", "o">>, <<"P", "p">>, <<"E", "e">>, <<"N", "n">>,
                    <<"B", "b">>} : {a, b} = {pair[1], pair[2]}

EqualsIgnoringCase(s, t) ==
    /\ Len(s) = Len(t)
    /\ \A i \in 1..Len(s) : SameLetter(s[i], t[i])

\* C11: create_market_data_provider returns an OpenBBMarketDataProvider
\* exactly when MARKET_DATA_PROVIDER is set to "openbb" in any case and
\* OpenBB is importable, and the yfinance-based MarketDataProvider in every
\* other case, the unset variable included.
C11_OpenBBIffSelected ==
    f_ret.called =>
        IF /\ f_ret.env # None
           /\ EqualsIgnoringCase(f_ret.env[1], <<"o", "p", "e", "n", "b", "b">>)
           /\ OPENBB_AVAILABLE
        THEN f_ret.returned = "OpenBBMarketDataProvider"
        ELSE f_ret.returned = "MarketDataProvider"

C11_Witness ==
    /\ f_ret.called
    /\ f_ret.env = Some(<<"O", "p", "e", "n", "B", "B">>)
    /\ f_ret.returned = "OpenBBMarketDataProvider"

\* C12: after remove_ticker(t) the upper-cased t is not in the watchlist,
\* whatever list the scraper held, the constructor's included.
C12_RemovedTickerAbsent ==
    s_ret.op = "remove_ticker" => ~In(Upper(s_ret.ticker), tickers)

=============================================================================
